---- MODULE Spec2Model ----
(***************************************************************************)
(* zbeacon (pyre/zbeacon.py): LAN service announcement and discovery.      *)
(*                                                                         *)
(* Two concurrent units: the Facade (class ZBeacon, the caller's thread)   *)
(* and the Agent (class ZBeaconAgent, forked thread).  They share one      *)
(* bidirectional pipe.  Byte strings are sequences of byte values; a       *)
(* multipart message is a sequence of frames.                              *)
(***************************************************************************)
EXTENDS Integers, Sequences, FiniteSets, TLC

VARIABLES
    fpc,          \* Facade position: "start", "running", "stopping", "stopped"
    hostname,     \* ZBeacon._hostname
    calls,        \* number of API calls the caller has made before Stop
    partial,      \* frames the Facade sent with SNDMORE, message still open
    outstanding,  \* the commands the caller has issued, in order, that the
                  \* Agent has not dequeued yet
    pipeIn,       \* complete multipart messages Facade -> Agent
    pipeOut,      \* frames Agent -> Facade, in order
    udpIn,        \* datagrams waiting on the UDP socket: [data, addr]
    arrived,      \* number of datagrams that have reached the socket so far
    now,          \* wall clock, milliseconds
    ifaces,       \* what netifaces reports: the interfaces, in order
    apc,          \* Agent position
    items,        \* result of the last poll: [pipe, udp]
    address,      \* ZBeaconAgent.address
    interface_name, \* ZBeaconAgent.interface_name
    interval,     \* ZBeaconAgent._interval (seconds, added to time.time())
    noecho,       \* ZBeaconAgent._noecho
    terminated,   \* ZBeaconAgent._terminated
    ping_at,      \* ZBeaconAgent._ping_at, milliseconds
    transmit,     \* ZBeaconAgent.transmit
    filter,       \* ZBeaconAgent._filter
    data,         \* recv(): the bytes of the last datagram read
    sockOpen,     \* the UDP socket is open (not yet closed by __del__)
    lastSent,     \* the last datagram handed to sendto() successfully
    sends,        \* number of datagrams sendto() has sent
    cmd,          \* the command api_command handled in this loop iteration
    error,        \* the exception that ended run(): "none", "api", "recv",
                  \* "send"
    acks          \* number of "OK" frames the Agent has put on the pipe

fvars == <<fpc, hostname, calls, partial>>
chans == <<pipeIn, pipeOut>>
avars == <<apc, items, address, interface_name, interval, noecho, terminated, ping_at,
           transmit, filter, data, sockOpen, lastSent, sends, cmd, error, acks>>
env   == <<udpIn, arrived, now, ifaces>>
vars  == <<fvars, outstanding, chans, env, avars>>

----------------------------------------------------------------------------
(* Program constants *)

BEACON_MAX == 255
INTERVAL_DFLT == 1
\* time.time() counts seconds, the poller counts milliseconds
MsPerSec == 1000

\* Python's None; no byte string contains -1
None == <<-1>>

\* Command names and the acknowledgment, as ASCII
TERM        == <<36, 84, 69, 82, 77>>
INTERVAL    == <<73, 78, 84, 69, 82, 86, 65, 76>>
NOECHO      == <<78, 79, 69, 67, 72, 79>>
PUBLISH     == <<80, 85, 66, 76, 73, 83, 72>>
SILENCE     == <<83, 73, 76, 69, 78, 67, 69>>
SUBSCRIBE   == <<83, 85, 66, 83, 67, 82, 73, 66, 69>>
UNSUBSCRIBE == <<85, 78, 83, 85, 66, 83, 67, 82, 73, 66, 69>>
OK          == <<79, 75>>

----------------------------------------------------------------------------
(* Bounds and input sets *)

\* External events in one run: API calls before Stop, datagrams reaching the
\* socket, and clock ticks, taken together
MaxInputs == 3

TickMs    == MsPerSec     \* the clock moves in seconds
StartTime == TickMs

\* Interfaces in one enumeration
MaxInterfaces == 3

LocalAddr == <<49, 48, 46, 53>>     \* "10.5"
PeerAddr  == <<49, 48, 46, 55>>     \* "10.7"
OtherAddr == <<49, 48, 46, 57>>     \* "10.9"
ThirdAddr == <<49, 48, 46, 51>>     \* "10.3"
LoopAddr  == <<49, 50, 55, 46, 49>> \* "127.1"
Netmask   == <<50, 53, 53>>         \* "255"

\* Interfaces as netifaces reports them: a name and the AF_INET address
\* sets, each with an "addr" and a "netmask" key or without (None)
IfLo    == [name |-> <<108, 111>>,
            inet |-> <<[addr |-> LoopAddr, netmask |-> Netmask]>>]
IfNoInet == [name |-> <<116, 117, 110>>, inet |-> <<>>]
IfNoMask == [name |-> <<112, 112, 112>>,
             inet |-> <<[addr |-> ThirdAddr, netmask |-> None]>>]
IfEth0  == [name |-> <<101, 48>>,
            inet |-> <<[addr |-> LocalAddr, netmask |-> Netmask]>>]
IfEth1  == [name |-> <<101, 49>>,
            inet |-> <<[addr |-> None, netmask |-> Netmask],
                       [addr |-> OtherAddr, netmask |-> Netmask]>>]
IfMixed == [name |-> <<109, 120>>,
            inet |-> <<[addr |-> LoopAddr, netmask |-> Netmask],
                       [addr |-> ThirdAddr, netmask |-> Netmask]>>]

InterfaceKinds == {IfLo, IfNoInet, IfNoMask, IfEth0, IfEth1, IfMixed}

\* Every enumeration of at most MaxInterfaces interfaces
InterfaceLists ==
    UNION {[1..n -> InterfaceKinds] : n \in 0..MaxInterfaces}

\* The enumeration of the runs that go on past startup
DefaultInterfaces == <<IfLo, IfEth0>>

\* 256 bytes: "ZR" followed by 254 times "E"
Oversized == <<90, 82>> \o [i \in 1..(BEACON_MAX - 1) |-> 69]

\* "ZR" and a 256-byte payload
Payloads == {<<90, 82>>, Oversized}
\* The empty filter, "ZR" and a 256-byte filter
Filters == {<<>>, <<90, 82>>, Oversized}
\* "ZR", "X", "OK", "XYZ", and a 256-byte datagram (read truncated to 255)
Datagrams == {<<90, 82>>, <<88>>, OK, <<88, 89, 90>>, Oversized}
\* "2"
IntervalArgs == {<<50>>}

----------------------------------------------------------------------------
(* Helpers *)

Min(a, b) == IF a < b THEN a ELSE b

\* s[:n]
Take(s, n) == SubSeq(s, 1, Min(n, Len(s)))

\* Python truthiness of a bytes-or-None value
Truthy(b) == b # None /\ Len(b) > 0

IsDigit(c) == c >= 48 /\ c <= 57

AllDigits(s) == Len(s) > 0 /\ \A i \in 1..Len(s) : IsDigit(s[i])

RECURSIVE ParseInt(_)
\* int(b) for a string of decimal digits
ParseInt(s) ==
    IF Len(s) = 0 THEN 0
    ELSE 10 * ParseInt(SubSeq(s, 1, Len(s) - 1)) + (s[Len(s)] - 48)

\* socket.send(frame, SNDMORE): the frame joins the open message
SendMore(frames, frame) == frames \o <<frame>>

\* socket.send(frame): the frame closes the open message, which is queued
SendLast(queue, frames, frame) == Append(queue, frames \o <<frame>>)

----------------------------------------------------------------------------
(* Pure parts of ZBeaconAgent.recv *)

\* Faulty variant of the filter check: a datagram shorter than the filter
\* is dropped too
FilterDiscardsShort(f, d) ==
    /\ Truthy(f)
    /\ Len(d) < Len(f) \/ SubSeq(d, 1, Len(f)) # f

\* recv(): "if self._filter: if len(self._filter) < len(data): ..."
FilterDiscards(f, d) ==
    /\ Truthy(f)
    /\ Len(f) < Len(d)
    /\ SubSeq(d, 1, Len(f)) # f

\* Faulty variant of the echo check: compares only the payload-length prefix
EchoDiscardsPrefix(ne, tx, d) ==
    ne /\ tx # None /\ Len(tx) <= Len(d) /\ SubSeq(d, 1, Len(tx)) = tx

\* recv(): "if self._noecho: if self.transmit == data: return"
EchoDiscards(ne, tx, d) == ne /\ tx = d

\* recv(): the frames put on the pipe for one datagram read
Delivered(f, ne, tx, d, peername) ==
    IF FilterDiscards(f, d) THEN <<>>
    ELSE IF EchoDiscards(ne, tx, d) THEN <<>>
    ELSE <<peername, d>>

\* Faulty variant of the send condition: the payload is not looked at
SendDueAnyPayload(tx, at, t) == t >= at

\* run(): "if self.transmit and time.time() >= self._ping_at"
SendDue(tx, at, t) == Truthy(tx) /\ t >= at

\* run(): "self._ping_at = time.time() + self._interval"
NextPing(t, iv) == t + iv * MsPerSec

----------------------------------------------------------------------------
(* Interface selection in ZBeaconAgent.__init__ *)

\* "if "addr" in address_set.keys() and "netmask" in address_set.keys()"
HasBoth(address_set) == address_set.addr # None /\ address_set.netmask # None

RECURSIVE FirstPair(_, _)
\* "for address_set in inet_addresses: if ...: break": the first address set
\* with both keys, from position j on; None/None if there is none
FirstPair(inet, j) ==
    IF j > Len(inet) THEN [addr |-> None, netmask |-> None]
    ELSE IF HasBoth(inet[j]) THEN inet[j]
    ELSE FirstPair(inet, j + 1)

\* ipaddress.ip_interface(...).is_loopback: the address is in 127.0.0.0/8
IsLoopback(a) == Len(a) >= 4 /\ SubSeq(a, 1, 4) = <<49, 50, 55, 46>>

RECURSIVE ScanLast(_, _, _)
\* Faulty variant of the scan: no "break", the last match wins
ScanLast(ifs, i, acc) ==
    IF i > Len(ifs) THEN acc
    ELSE LET pair == FirstPair(ifs[i].inet, 1)
         IN  IF Len(ifs[i].inet) = 0 \/ ~Truthy(pair.addr)
                \/ ~Truthy(pair.netmask) \/ IsLoopback(pair.addr)
             THEN ScanLast(ifs, i + 1, acc)
             ELSE ScanLast(ifs, i + 1,
                           [address |-> pair.addr, name |-> ifs[i].name])

SelectInterfaceLast(ifs) ==
    ScanLast(ifs, 1, [address |-> None, name |-> None])

RECURSIVE Scan(_, _)
\* "for interface_name in interfaces: ...", from position i on
Scan(ifs, i) ==
    IF i > Len(ifs) THEN [address |-> None, name |-> None]
    ELSE LET pair == FirstPair(ifs[i].inet, 1)
         IN  IF Len(ifs[i].inet) = 0 THEN Scan(ifs, i + 1)
             ELSE IF ~Truthy(pair.addr) \/ ~Truthy(pair.netmask)
                  THEN Scan(ifs, i + 1)
             ELSE IF IsLoopback(pair.addr) THEN Scan(ifs, i + 1)
             ELSE [address |-> pair.addr, name |-> ifs[i].name]

\* The address and interface name __init__ ends up with
SelectInterface(ifs) == Scan(ifs, 1)

\* str(self.address)
Str(a) == IF a = None THEN <<78, 111, 110, 101>> ELSE a

\* External events so far
Inputs == calls + arrived + (now - StartTime) \div TickMs

----------------------------------------------------------------------------
\* The state once both constructors have set their fields
InitState ==
    /\ fpc = "start"
    /\ hostname = None
    /\ calls = 0
    /\ partial = <<>>
    /\ pipeIn = <<>>
    /\ pipeOut = <<>>
    /\ udpIn = <<>>
    /\ arrived = 0
    /\ now = StartTime
    /\ apc = "boot"
    /\ items = [pipe |-> FALSE, udp |-> FALSE]
    /\ address = None
    /\ interface_name = None
    /\ interval = INTERVAL_DFLT
    /\ noecho = TRUE
    /\ terminated = FALSE
    /\ ping_at = 0
    /\ transmit = None
    /\ filter = None
    /\ data = None
    /\ sockOpen = TRUE
    /\ lastSent = None
    /\ sends = 0
    /\ cmd = None
    /\ error = "none"
    /\ outstanding = <<>>
    /\ acks = 0

Init == ifaces = DefaultInterfaces /\ InitState

\* Startup on any enumeration of interfaces
BootInit == ifaces \in InterfaceLists /\ InitState

----------------------------------------------------------------------------
(* Facade: class ZBeacon *)

\* ZBeacon.__init__: "self._hostname = self._pipe.recv_unicode()"
FacadeStart ==
    /\ fpc = "start"
    /\ pipeOut # <<>>
    /\ hostname' = Head(pipeOut)
    /\ pipeOut' = Tail(pipeOut)
    /\ fpc' = "running"
    /\ UNCHANGED <<calls, partial, outstanding, pipeIn, env, avars>>

CanCall == fpc = "running" /\ Inputs < MaxInputs

\* ZBeacon.set_interval
SetInterval(a) ==
    /\ CanCall
    /\ calls' = calls + 1
    /\ pipeIn' = SendLast(pipeIn, SendMore(partial, INTERVAL), a)
    /\ partial' = <<>>
    /\ outstanding' = Append(outstanding, <<INTERVAL, a>>)
    /\ UNCHANGED <<fpc, hostname, pipeOut, env, avars>>

\* ZBeacon.noecho
NoEcho ==
    /\ CanCall
    /\ calls' = calls + 1
    /\ pipeIn' = SendLast(pipeIn, partial, NOECHO)
    /\ partial' = <<>>
    /\ outstanding' = Append(outstanding, <<NOECHO>>)
    /\ UNCHANGED <<fpc, hostname, pipeOut, env, avars>>

\* ZBeacon.publish
Publish(p) ==
    /\ CanCall
    /\ calls' = calls + 1
    /\ pipeIn' = SendLast(pipeIn, SendMore(partial, PUBLISH), p)
    /\ partial' = <<>>
    /\ outstanding' = Append(outstanding, <<PUBLISH, p>>)
    /\ UNCHANGED <<fpc, hostname, pipeOut, env, avars>>

\* ZBeacon.silence
Silence ==
    /\ CanCall
    /\ calls' = calls + 1
    /\ pipeIn' = SendLast(pipeIn, partial, SILENCE)
    /\ partial' = <<>>
    /\ outstanding' = Append(outstanding, <<SILENCE>>)
    /\ UNCHANGED <<fpc, hostname, pipeOut, env, avars>>

\* ZBeacon.subscribe: the command frame is sent before the size check
Subscribe(f) ==
    /\ CanCall
    /\ calls' = calls + 1
    /\ IF Len(f) > BEACON_MAX
       THEN /\ partial' = SendMore(partial, SUBSCRIBE)
            /\ pipeIn' = pipeIn
       ELSE /\ pipeIn' = SendLast(pipeIn, SendMore(partial, SUBSCRIBE), f)
            /\ partial' = <<>>
    /\ outstanding' = IF Len(f) > BEACON_MAX THEN outstanding
                       ELSE Append(outstanding, <<SUBSCRIBE, f>>)
    /\ UNCHANGED <<fpc, hostname, pipeOut, env, avars>>

\* ZBeacon.unsubscribe
Unsubscribe ==
    /\ CanCall
    /\ calls' = calls + 1
    /\ pipeIn' = SendLast(pipeIn, partial, UNSUBSCRIBE)
    /\ partial' = <<>>
    /\ outstanding' = Append(outstanding, <<UNSUBSCRIBE>>)
    /\ UNCHANGED <<fpc, hostname, pipeOut, env, avars>>

\* The caller reads one frame from get_socket()
AppRecv ==
    /\ fpc = "running"
    /\ pipeOut # <<>>
    /\ pipeOut' = Tail(pipeOut)
    /\ UNCHANGED <<fvars, outstanding, pipeIn, env, avars>>

\* ZBeacon.__del__: "self._pipe.send_unicode("$TERM")"
Stop ==
    /\ fpc = "running"
    /\ pipeIn' = SendLast(pipeIn, partial, TERM)
    /\ partial' = <<>>
    /\ fpc' = "stopping"
    /\ outstanding' = Append(outstanding, <<TERM>>)
    /\ UNCHANGED <<hostname, calls, pipeOut, env, avars>>

\* ZBeacon.__del__: one turn of "while msg != b'OK': msg = self._pipe.recv()"
StopRecv ==
    /\ fpc = "stopping"
    /\ pipeOut # <<>>
    /\ pipeOut' = Tail(pipeOut)
    /\ fpc' = IF Head(pipeOut) = OK THEN "stopped" ELSE "stopping"
    /\ UNCHANGED <<hostname, calls, partial, outstanding, pipeIn, env, avars>>

----------------------------------------------------------------------------
(* Environment *)

\* A peer's datagram reaches the bound socket
UdpArrive(d) ==
    /\ sockOpen
    /\ apc \notin {"boot", "init_socket"}
    /\ Inputs < MaxInputs
    /\ arrived' = arrived + 1
    /\ udpIn' = Append(udpIn, [data |-> d, addr |-> PeerAddr])
    /\ UNCHANGED <<fvars, outstanding, chans, now, ifaces, avars>>

\* Time passes
Tick ==
    /\ Inputs < MaxInputs
    /\ now' = now + TickMs
    /\ UNCHANGED <<fvars, outstanding, chans, udpIn, arrived, ifaces, avars>>

----------------------------------------------------------------------------
(* Agent: class ZBeaconAgent *)

\* __init__: the interface scan; without a usable interface the error is
\* logged and construction goes on
AgentBoot ==
    /\ apc = "boot"
    /\ address' = SelectInterface(ifaces).address
    /\ interface_name' = SelectInterface(ifaces).name
    /\ apc' = "init_socket"
    /\ UNCHANGED <<fvars, chans, env, items, interval, noecho,
                   terminated, ping_at, transmit, filter, data,
                   sockOpen, lastSent, acks, sends, cmd, error, outstanding>>

\* _init_socket: options and bind; socket errors are logged and swallowed
AgentInitSocket ==
    /\ apc = "init_socket"
    /\ apc' = "report"
    /\ UNCHANGED <<fvars, chans, env, items, address, interface_name, interval, noecho,
                   terminated, ping_at, transmit, filter, data,
                   sockOpen, lastSent, acks, sends, cmd, error, outstanding>>

\* __init__: "self._pipe.send_unicode(str(self.address))", then run()
AgentReport ==
    /\ apc = "report"
    /\ pipeOut' = Append(pipeOut, Str(address))
    /\ apc' = "poll"
    /\ UNCHANGED <<fvars, pipeIn, env, items, address, interface_name, interval, noecho,
                   terminated, ping_at, transmit, filter, data,
                   sockOpen, lastSent, acks, sends, cmd, error, outstanding>>

\* run(): the poll returns when the pipe or the socket is readable, or when
\* the timeout max(0, _ping_at - now) has run out; without a payload the
\* timeout is infinite
AgentPoll ==
    /\ apc = "poll"
    /\ \/ pipeIn # <<>>
       \/ udpIn # <<>>
       \/ SendDue(transmit, ping_at, now)
    /\ items' = [pipe |-> pipeIn # <<>>, udp |-> udpIn # <<>>]
    /\ apc' = IF pipeIn # <<>> THEN "api"
              ELSE IF udpIn # <<>> THEN "recv"
              ELSE "send"
    /\ UNCHANGED <<fvars, chans, env, address, interface_name, interval, noecho,
                   terminated, ping_at, transmit, filter, data,
                   sockOpen, lastSent, acks, sends, cmd, error, outstanding>>

\* commands whose handler pops a second frame
TakesArgument(c) == c \in {INTERVAL, PUBLISH, SUBSCRIBE}

\* api_command raises: pop from an empty list, or int() of a non-number
ApiRaises(cmds) ==
    \/ TakesArgument(cmds[1]) /\ Len(cmds) < 2
    \/ cmds[1] = INTERVAL /\ Len(cmds) >= 2 /\ ~AllDigits(cmds[2])

\* run(): "if self._pipe in items ...: self.api_command()".
\* UNSUBSCRIBE assigns self.filter, an attribute nothing reads, and leaves
\* self._filter alone.
AgentApiCommand ==
    /\ apc = "api"
    /\ items.pipe
    /\ LET cmds == Head(pipeIn)
           command == cmds[1]
       IN  /\ pipeIn' = Tail(pipeIn)
           /\ apc' = IF ApiRaises(cmds) THEN "crashed"
                     ELSE IF items.udp THEN "recv"
                     ELSE "send"
           /\ interval' = IF command = INTERVAL /\ ~ApiRaises(cmds)
                          THEN ParseInt(cmds[2]) ELSE interval
           /\ noecho' = IF command = NOECHO THEN TRUE ELSE noecho
           /\ transmit' = IF command = PUBLISH /\ ~ApiRaises(cmds) THEN cmds[2]
                          ELSE IF command = SILENCE THEN None
                          ELSE transmit
           /\ ping_at' = IF command = PUBLISH /\ ~ApiRaises(cmds) THEN now
                         ELSE ping_at
           /\ filter' = IF command = SUBSCRIBE /\ ~ApiRaises(cmds)
                        THEN cmds[2] ELSE filter
           /\ terminated' = IF command = TERM THEN TRUE ELSE terminated
           /\ pipeOut' = IF command = TERM THEN Append(pipeOut, OK)
                         ELSE pipeOut
           /\ acks' = IF command = TERM THEN acks + 1 ELSE acks
           /\ cmd' = command
           /\ error' = IF ApiRaises(cmds) THEN "api" ELSE error
           /\ outstanding' = IF outstanding = <<>> THEN outstanding
                             ELSE Tail(outstanding)
    /\ UNCHANGED <<fvars, env, items, address, interface_name, data, sockOpen,
                   lastSent, sends>>

\* run(): "if self._udp_sock.fileno() in items ...: self.recv()".
\* When recvfrom raises, the handler logs and falls through to "addr[0]"
\* with addr unbound, which raises out of recv() and run().
AgentRecv ==
    /\ apc = "recv"
    /\ items.udp
    /\ \E raised \in BOOLEAN :
          IF raised
          THEN /\ apc' = "crashed"
               /\ error' = "recv"
               /\ UNCHANGED <<udpIn, pipeOut, data>>
          ELSE LET dgram == Head(udpIn)
                   d     == Take(dgram.data, BEACON_MAX)
               IN  /\ udpIn' = Tail(udpIn)
                   /\ data' = d
                   /\ pipeOut' = pipeOut \o
                          Delivered(filter, noecho, transmit, d, dgram.addr)
                   /\ apc' = "send"
                   /\ error' = error
    /\ UNCHANGED <<fvars, outstanding, sends, cmd, pipeIn, arrived, now, ifaces, items, address, interface_name, interval, noecho,
                   terminated, ping_at, transmit, filter, sockOpen, lastSent,
                   acks>>

\* run(): "if self.transmit and time.time() >= self._ping_at: self.send();
\* self._ping_at = time.time() + self._interval".  send() retries once after
\* _init_socket(); the retry is not guarded.
AgentSend ==
    /\ apc = "send"
    /\ items' = [pipe |-> FALSE, udp |-> FALSE]
    /\ data' = None
    /\ cmd' = None
    /\ IF ~SendDue(transmit, ping_at, now)
       THEN /\ apc' = "check"
            /\ UNCHANGED <<ping_at, lastSent, sends, error>>
       ELSE \E first, second \in BOOLEAN :
            IF first \/ second
            THEN /\ lastSent' = transmit
                 /\ sends' = sends + 1
                 /\ ping_at' = NextPing(now, interval)
                 /\ apc' = "check"
                 /\ error' = error
            ELSE /\ apc' = "crashed"
                 /\ error' = "send"
                 /\ UNCHANGED <<ping_at, lastSent, sends>>
    /\ UNCHANGED <<fvars, outstanding, chans, env, address, interface_name, interval, noecho,
                   terminated, transmit, filter, sockOpen, acks>>

\* run(): "if self._terminated: break"
AgentCheck ==
    /\ apc = "check"
    /\ apc' = IF terminated THEN "exited" ELSE "poll"
    /\ UNCHANGED <<fvars, chans, env, items, address, interface_name, interval, noecho,
                   terminated, ping_at, transmit, filter, data, sockOpen,
                   lastSent, acks, sends, cmd, error, outstanding>>

\* ZBeaconAgent.__del__, once run() has returned or raised
AgentClose ==
    /\ apc \in {"exited", "crashed"}
    /\ sockOpen
    /\ sockOpen' = FALSE
    /\ UNCHANGED <<fvars, chans, env, apc, items, address, interface_name, interval,
                   noecho, terminated, ping_at, transmit, filter, data, lastSent, acks, sends, cmd, error, outstanding>>

----------------------------------------------------------------------------
FacadeCall ==
    \/ \E a \in IntervalArgs : SetInterval(a)
    \/ NoEcho
    \/ \E p \in Payloads : Publish(p)
    \/ Silence
    \/ \E f \in Filters : Subscribe(f)
    \/ Unsubscribe

Facade == FacadeStart \/ FacadeCall \/ AppRecv \/ Stop \/ StopRecv

Agent ==
    \/ AgentBoot
    \/ AgentInitSocket
    \/ AgentReport
    \/ AgentPoll
    \/ AgentApiCommand
    \/ AgentRecv
    \/ AgentSend
    \/ AgentCheck
    \/ AgentClose

Environment == (\E d \in Datagrams : UdpArrive(d)) \/ Tick

Next == Facade \/ Agent \/ Environment

Spec == Init /\ [][Next]_vars

\* The Agent's thread and the Facade's blocking read are always scheduled
FairSpec == Spec /\ WF_vars(Agent) /\ WF_vars(StopRecv)

\* Startup and shutdown alone, on any enumeration of interfaces: no call but
\* Stop, no datagram, no clock tick
BootNext ==
    \/ AgentBoot
    \/ AgentInitSocket
    \/ AgentReport
    \/ FacadeStart
    \/ Stop
    \/ AgentPoll
    \/ AgentApiCommand
    \/ AgentSend
    \/ AgentCheck
    \/ AgentClose
    \/ StopRecv

BootSpec == BootInit /\ [][BootNext]_vars

TypeOK ==
    /\ fpc \in {"start", "running", "stopping", "stopped"}
    /\ apc \in {"boot", "init_socket", "report", "poll", "api", "recv",
                "send", "check", "exited", "crashed"}
    /\ calls \in 0..MaxInputs
    /\ arrived \in 0..MaxInputs
    /\ now \in StartTime..(StartTime + MaxInputs * TickMs)
    /\ acks \in 0..1
    /\ sends \in 0..(MaxInputs + 1)
    /\ error \in {"none", "api", "recv", "send"}
    /\ Len(outstanding) <= MaxInputs + 1

----------------------------------------------------------------------------
(* Steps the properties speak about *)

\* The step in which the Agent dequeues and handles a command whose first
\* frame is c
Handles(c) ==
    apc = "api" /\ items.pipe /\ Head(pipeIn)[1] = c /\ apc' # "api"

\* One receive-and-filter cycle in which recvfrom returned a datagram
RecvOk == apc = "recv" /\ items.udp /\ apc' = "send"

\* The bytes and the sender that cycle reads
RecvData == Take(Head(udpIn).data, BEACON_MAX)
RecvPeer == Head(udpIn).addr

\* One successful scheduled send
SendOk == apc = "send" /\ SendDue(transmit, ping_at, now) /\ apc' = "check"

\* d starts with f
StartsWith(d, f) == Len(f) <= Len(d) /\ SubSeq(d, 1, Len(f)) = f

\* The period the Agent has stored, in milliseconds
ConfiguredMs == interval * MsPerSec

\* The messages the Facade's calls are meant to put on the pipe
FacadeCommands ==
    {<<INTERVAL, a>> : a \in IntervalArgs}
    \cup {<<NOECHO>>, <<SILENCE>>, <<UNSUBSCRIBE>>, <<TERM>>}
    \cup {<<PUBLISH, p>> : p \in Payloads}
    \cup {<<SUBSCRIBE, f>> : f \in {g \in Filters : Len(g) <= BEACON_MAX}}

----------------------------------------------------------------------------
(* C1: once the Facade has sent $TERM, the Agent eventually puts an OK on  *)
(* the pipe, and it puts at most one OK there in the whole execution.      *)
C1_TerminateAcked ==
    /\ (fpc \in {"stopping", "stopped"}) ~> (acks = 1)
    /\ [](acks <= 1)

(* C2: after the Agent has put the OK on the pipe it puts nothing more     *)
(* there: no PeerAnnouncement follows the acknowledgment.                  *)
C2_NoAnnouncementAfterAck ==
    [][acks >= 1 => Len(pipeOut') <= Len(pipeOut)]_vars

(* C3: when Stop (ZBeacon.__del__) has returned, the Agent's UDP socket    *)
(* has been closed.                                                        *)
C3_SocketClosedWhenStopReturns == fpc = "stopped" => ~sockOpen

(* C4: processing Unsubscribe restores accept-all: afterwards the filter   *)
(* check discards no datagram, whatever filter was subscribed before.      *)
C4_UnsubscribeRestoresAcceptAll ==
    [][Handles(UNSUBSCRIBE) =>
          \A d \in Datagrams : ~FilterDiscards(filter', d)]_vars

(* C5: under a non-empty filter F a datagram that does not start with F   *)
(* is never delivered, and one that starts with F is delivered unless the  *)
(* echo check discards it.                                                 *)
C5_PrefixFilter ==
    [][(RecvOk /\ Truthy(filter)) =>
          IF StartsWith(RecvData, filter)
          THEN (~(noecho /\ transmit = RecvData)
                   => pipeOut' = pipeOut \o <<RecvPeer, RecvData>>)
          ELSE pipeOut' = pipeOut]_vars

(* C6: with noecho set, a datagram equal to the payload active at receive  *)
(* time is not delivered, and every other datagram that passes the filter  *)
(* check is delivered.                                                     *)
C6_EchoSuppression ==
    [][(RecvOk /\ noecho) =>
          IF RecvData = transmit
          THEN pipeOut' = pipeOut
          ELSE (~FilterDiscards(filter, RecvData)
                   => pipeOut' = pipeOut \o <<RecvPeer, RecvData>>)]_vars

\* C6 witness: the Agent has just read a datagram equal to its active
\* payload and nothing was delivered
C6_Witness ==
    /\ apc = "send"
    /\ noecho
    /\ transmit # None
    /\ data = transmit
    /\ fpc = "running"
    /\ pipeOut = <<>>

(* C7: every datagram sent is at most BEACON_MAX bytes; an oversized       *)
(* Publish is rejected at the Facade and never becomes the active payload. *)
C7_SizeBound ==
    /\ lastSent # None => Len(lastSent) <= BEACON_MAX
    /\ transmit # None => Len(transmit) <= BEACON_MAX
    /\ \A i \in 1..Len(pipeIn) :
          pipeIn[i][1] = PUBLISH =>
              \A j \in 2..Len(pipeIn[i]) : Len(pipeIn[i][j]) <= BEACON_MAX

(* C8: an oversized Subscribe leaves nothing behind: every message that    *)
(* reaches the Agent is a command as the Facade was asked to send it, and  *)
(* the Agent's filter is unset or a filter the Facade accepted.            *)
C8_RejectedSubscribeNoEffect ==
    /\ \A i \in 1..Len(pipeIn) : pipeIn[i] \in FacadeCommands
    /\ filter \in {None} \cup {f \in Filters : Len(f) <= BEACON_MAX}

(* C9: the interval is in milliseconds: processing SetInterval(ms) makes   *)
(* the stored period ms milliseconds, the default period is 1000 ms, and   *)
(* each send schedules the next one a period after the time of the send.   *)
C9_IntervalInMilliseconds ==
    [][/\ Handles(INTERVAL) => ConfiguredMs' = ParseInt(Head(pipeIn)[2])
       /\ apc = "boot" => ConfiguredMs = 1000
       /\ SendOk => ping_at' = now + ConfiguredMs]_vars

(* C10: in the Agent's initial state echo suppression is off, no payload   *)
(* is set and no filter is set.                                            *)
C10_InitialDefaults ==
    apc = "boot" => (~noecho /\ transmit = None /\ filter = None)

----------------------------------------------------------------------------
(* Interface selection and startup, under BootSpec *)

\* The interface has an IPv4 entry, and its first entry carrying both an
\* address and a netmask is not a loopback address
Qualifies(iface) ==
    \E j \in 1..Len(iface.inet) :
        /\ HasBoth(iface.inet[j])
        /\ \A k \in 1..(j - 1) : ~HasBoth(iface.inet[k])
        /\ ~IsLoopback(iface.inet[j].addr)

\* The address of the interface's first complete entry
FirstCompleteAddr(iface) ==
    LET j == CHOOSE j \in 1..Len(iface.inet) :
                 /\ HasBoth(iface.inet[j])
                 /\ \A k \in 1..(j - 1) : ~HasBoth(iface.inet[k])
    IN  iface.inet[j].addr

\* The scan is over
Scanned == apc # "boot"

(* C11: when no interface qualifies, the Agent neither initialises the
   socket nor enters the event loop nor reports an address, and the
   Facade's Start does not succeed. *)
C11_StartupFailure ==
    (Scanned /\ address = None) =>
        /\ apc \notin {"init_socket", "report", "poll", "api", "recv",
                        "send", "check", "exited"}
        /\ fpc = "start"
        /\ hostname = None

(* C19: the selected interface is the first one in enumeration order that
   qualifies; a later qualifying interface never overrides it, an interface
   whose first complete entry is loopback is skipped entirely, and when
   none qualifies no address is selected. *)
C19_FirstMatch ==
    Scanned =>
        IF \E i \in 1..Len(ifaces) : Qualifies(ifaces[i])
        THEN LET i == CHOOSE i \in 1..Len(ifaces) :
                          /\ Qualifies(ifaces[i])
                          /\ \A k \in 1..(i - 1) : ~Qualifies(ifaces[k])
             IN  /\ address = FirstCompleteAddr(ifaces[i])
                 /\ interface_name = ifaces[i].name
        ELSE address = None /\ interface_name = None

\* A skipped loopback-first interface, then two qualifying ones: the first
\* of the two is selected
C19_Witness ==
    /\ Scanned
    /\ ifaces = <<IfMixed, IfEth1, IfEth0>>
    /\ address = OtherAddr

----------------------------------------------------------------------------
(* Transmission and the event loop *)

(* C12: while no transmit payload is set (initially, and from the handling
   of SILENCE to the handling of the next PUBLISH) no step sends a
   datagram. *)
C12_SilentWithoutPayload ==
    [][transmit = None => sends' = sends /\ lastSent' = lastSent]_vars

\* A payload was sent, SILENCE was handled, and a loop iteration has gone
\* through the send condition past the scheduled time without sending
C12_Witness ==
    /\ transmit = None
    /\ sends = 1
    /\ now >= ping_at
    /\ apc = "check"

\* A step that takes a message off the command pipe
Dequeues == Len(pipeIn') < Len(pipeIn)

(* C13: the Agent handles the commands the caller issued in the order they
   were issued, none lost, duplicated or reordered: every message it
   dequeues is the oldest command not yet handled, and it dequeues one
   message, in the command stage of a loop iteration, and then leaves that
   stage. *)
C13_CommandOrder ==
    [][Dequeues =>
          /\ apc = "api" /\ apc' \in {"recv", "send", "crashed"}
          /\ pipeIn' = Tail(pipeIn)
          /\ outstanding # <<>>
          /\ Head(pipeIn) = Head(outstanding)]_vars

(* C14: Stop returns only on the acknowledgement the Agent emitted while
   handling $TERM; no frame of a peer announcement, whatever its bytes,
   makes it return. *)
C14_StopOnRealAck ==
    fpc = "stopped" => acks = 1

\* The loop iteration that handled PUBLISH comes to its end, or run() ends
EndsPublishIteration ==
    /\ cmd = PUBLISH
    /\ apc \in {"recv", "send"}
    /\ apc' \notin {"recv", "send"}

(* C15: handling PUBLISH with a payload of at most BEACON_MAX bytes sets
   the next scheduled transmit time to the current time, and the payload is
   sent before that loop iteration is over, whatever the schedule and the
   interval were. *)
C15_PublishSendsAtOnce ==
    [][/\ Handles(PUBLISH) => ping_at' = now /\ transmit' = Head(pipeIn)[2]
       /\ (EndsPublishIteration /\ Len(transmit) <= BEACON_MAX) =>
              sends' = sends + 1 /\ lastSent' = transmit]_vars

(* C16: a failing receive does not end the event loop. *)
C16_ReceiveErrorNotFatal ==
    error # "recv"

(* C17: a scheduled send that fails, and whose one retry after socket
   re-initialisation fails too, does not end the event loop. *)
C17_SendFailureNotFatal ==
    error # "send"

\* A send is due and nothing has told the Agent to stop
Due == SendDue(transmit, ping_at, now) /\ ~terminated

(* C20: periodic transmission is live: unless SILENCE or $TERM is handled
   or a send fails, a send that is due is made (and the next one
   scheduled); neither commands nor datagrams nor an idle pipe postpone it
   for ever. *)
C20_TransmitLive ==
    (Due /\ error # "send") ~> (~Due \/ error = "send")

----------------------------------------------------------------------------
(* The filter check *)

(* C18: the filter check drops a datagram exactly when a non-empty filter
   is set, the datagram is strictly longer than the filter, and its first
   filter-length bytes differ from the filter; a datagram no longer than
   the filter, and any datagram under an empty or absent filter, gets past
   the filter check (and is delivered unless the echo check drops it). *)
C18_FilterOnlyLonger ==
    [][RecvOk =>
          LET d == RecvData
              blocked == /\ filter # None
                         /\ Len(filter) > 0
                         /\ Len(d) > Len(filter)
                         /\ SubSeq(d, 1, Len(filter)) # filter
          IN  /\ blocked => pipeOut' = pipeOut
              /\ (~blocked /\ ~EchoDiscards(noecho, transmit, d)) =>
                     pipeOut' = pipeOut \o <<RecvPeer, d>>]_vars

\* Under the filter "ZR" the one-byte datagram "X" has been delivered
C18_Witness ==
    /\ filter = <<90, 82>>
    /\ data = <<88>>
    /\ Len(pipeOut) >= 2
    /\ pipeOut[Len(pipeOut)] = <<88>>

====
